---- MODULE Spec2Model ----
(***************************************************************************)
(* Exact inference on discrete Bayesian networks (package "bayesian").     *)
(*                                                                         *)
(* The module models                                                       *)
(*   - the index map between two domains          (bayesian/__init__.py)   *)
(*   - the table algebra of Table                 (bayesian/_core.py)      *)
(*   - the index-map based Product                (bayesian/_junction.py,  *)
(*                                                 bayesian/tables.py)     *)
(*   - the naive engine Network                   (bayesian/_core.py)      *)
(*   - the domain graph and the junction tree     (bayesian/_domain.py,    *)
(*                                                 bayesian/_junction.py)  *)
(*                                                                         *)
(* Arrays are functions over 0 .. n-1 holding the flat row-major (C order) *)
(* contents of the numpy array; domains are sequences of variables.        *)
(* 64-bit floats are modelled by exact rationals <<n, d>> in lowest terms, *)
(* d = 0 standing for the non-finite values (<<0, 0>> is NaN).             *)
(***************************************************************************)
EXTENDS Integers, Sequences, FiniteSets, TLC

VARIABLES
    m_sub,      \* map(): the subdomain argument of the last call
    m_full,     \* map(): the domain argument of the last call
    m_out,      \* map(): the array returned by the last call
    t_op,       \* table algebra: the last operation performed
    t_a,        \* table algebra: the left / only operand
    t_b,        \* table algebra: the right operand (or t_a again)
    t_var,      \* table algebra: the variable argument of marginalize
    t_raw,      \* table algebra: the arguments of the last Table(...) call
    t_c,        \* table algebra: the table returned (or the exception raised)
    t_p,        \* table algebra: the result of the index-map based Product
    network,    \* Network._tables: the list of the network's tables
    hash_order,          \* the order in which this run lists the elements of a set
    pc,         \* where the caller of the network / junction tree stands
    exc,        \* the exception that ended the last call ("" when none)
    n_var,      \* Network.marginal: the variable asked for
    n_order,    \* Network.marginal: the order network.domain came in
    n_out,      \* Network.marginal: the table returned
    n_new,      \* Network.marginalize: the table list of the network returned
    n_next,     \* the first candidate table the caller has not considered yet
    node_order, \* the order in which this run lists the nodes of a set
    g_nodes,    \* graph_copy._nodes: the variables whose node is still in the copy
    links,      \* Node._links of the node of every variable (shared with the copy)
    buckets,    \* JunctionTree.buckets
    separators, \* JunctionTree.separators
    nb_nodes_removed,    \* the counter of _build_from_graph
    used_tables,         \* the set used_tables of _build_from_graph
    subgraph_variables,  \* JunctionTree.subgraph_variables
    jt_normalization,    \* JunctionTree.normalization
    jt_marginals,        \* the list JunctionTree.marginals() returned, by variable
    changes,             \* how many times an input table was changed in place
    compiled,            \* how many tables the network had when the tree was built
    d_op,       \* Domain: the last operation performed
    d_raw,      \* Domain: the iterable given to the last Domain(...) call
    d_a,        \* Domain: the left / only operand
    d_b,        \* Domain: the right operand
    d_var,      \* Domain: the variable argument of __sub__
    d_c,        \* Domain: the domain returned by - (or the exception raised)
    d_cmp,      \* Domain: what the comparison gave ("True", "False", exception)
    dag,        \* tables.py: the Probability, Product and Marginal objects made
    dag_op,     \* tables.py: the last call, <<name, node>>
    dag_sets    \* tables.py: how many times values were assigned to a leaf

domVars == <<d_op, d_raw, d_a, d_b, d_var, d_c, d_cmp>>
dagVars == <<dag, dag_op, dag_sets>>
mapVars == <<m_sub, m_full, m_out, domVars, dagVars>>
tabVars == <<t_op, t_a, t_b, t_var, t_raw, t_c, t_p>>
netVars == <<network, hash_order, pc, exc, n_var, n_order, n_out, n_new, n_next,
             node_order>>
jtVars == <<g_nodes, links, buckets, separators, nb_nodes_removed, used_tables,
            subgraph_variables, jt_normalization, jt_marginals, changes,
            compiled>>
vars == <<mapVars, tabVars, netVars, jtVars>>

-----------------------------------------------------------------------------
(* Bounds of the model.                                                    *)

\* Longest domain handed to map() and to the table operations.
MaxDomLen == 3

\* Largest raw entry of an input table.
MaxVal == 2

\* Largest normalization argument handed to Table(...).
MaxNorm == 2

\* Most tables a network is given.
MaxTables == 4

\* How many times the caller changes a table of a compiled network.
MaxChanges == 1

\* Most Probability, Product and Marginal objects of an update graph.
MaxNodes == 5

\* How many times the caller assigns values to the leaves of an update graph.
MaxSets == 2

\* How many tables the caller adds to a network after its tree was built.
MaxLate == 1

\* How many of the links of GraphLinks a graph handed to the tree may have.
MaxLinks == 10

-----------------------------------------------------------------------------
(* Variables: identity and number of states (Variable.__init__).           *)

Vars == {"a", "b", "c", "d"}

\* Variable.nb_states: "c" is the three-state variable of the universe.
nb_states(v) == IF v = "c" THEN 3 ELSE 2

-----------------------------------------------------------------------------
(* Generic helpers on sequences and arrays.                                *)

Range(s) == {s[i] : i \in DOMAIN s}

\* tuple.index / list.index, 0-based as in Python; v must occur in s.
IndexOf(s, v) == (CHOOSE i \in DOMAIN s : s[i] = v /\ \A j \in 1..(i-1) : s[j] # v) - 1

\* [x for x in s if x in keep]
RECURSIVE Filter(_, _)
Filter(s, keep) ==
    IF s = <<>> THEN <<>>
    ELSE (IF Head(s) \in keep THEN <<Head(s)>> ELSE <<>>) \o Filter(Tail(s), keep)

\* All sequences without repetition over S of length 1 .. n.
RECURSIVE Arrangements(_, _)
Arrangements(S, n) ==
    IF n = 0 THEN {}
    ELSE {<<v>> : v \in S} \cup
         UNION {{s \o <<v>> : v \in S \ Range(s)} : s \in Arrangements(S, n - 1)}

\* An array as an explicit table of its entries (numpy arrays hold values,
\* not the expressions that made them).
Eager(x) == x @@ <<>>

\* reduce(operator.mul, shape)
RECURSIVE ProdSeq(_)
ProdSeq(s) == IF s = <<>> THEN 1 ELSE Head(s) * ProdSeq(Tail(s))

\* Row-major stride of axis k (1-based) of an array of the given shape.
Stride(shape, k) == ProdSeq(SubSeq(shape, k + 1, Len(shape)))

\* np.unravel_index(i, shape): the index on every axis.
Unravel(i, shape) ==
    Eager([k \in 1..Len(shape) |-> (i \div Stride(shape, k)) % shape[k]])

RECURSIVE SumTo(_, _)
SumTo(f, n) == IF n = 0 THEN 0 ELSE f[n] + SumTo(f, n - 1)

\* np.ravel_multi_index(idx, shape)
RavelIndex(idx, shape) ==
    SumTo([k \in 1..Len(shape) |-> idx[k] * Stride(shape, k)], Len(shape))

\* The 0-based array holding the entries of a sequence.
Arr(s) == Eager([i \in 0..(Len(s) - 1) |-> s[i + 1]])

ArrLen(x) == Cardinality(DOMAIN x)

-----------------------------------------------------------------------------
(* numpy operations used by the package, on flat row-major arrays.         *)

\* np.arange(n)
NpArange(n) == Eager([i \in 0..(n - 1) |-> i])

\* x.reshape(shape).transpose(axes).ravel(): axis k of the result is axis
\* axes[k] (0-based) of x.
NpTransposeRavel(x, shape, axes) ==
    LET newShape == Eager([k \in 1..Len(shape) |-> shape[axes[k] + 1]])
        oldIdx(i) == LET idx == Unravel(i, newShape)
                     IN  [j \in 1..Len(shape) |->
                            idx[CHOOSE k \in 1..Len(shape) : axes[k] + 1 = j]]
    IN  Eager([i \in 0..(ProdSeq(shape) - 1) |-> x[RavelIndex(oldIdx(i), shape)]])

\* np.tile(x.reshape(shape), reps).ravel(), reps as long as shape.
NpTileRavel(x, shape, reps) ==
    LET newShape == Eager([k \in 1..Len(shape) |-> shape[k] * reps[k]])
        src(i) == LET idx == Unravel(i, newShape)
                  IN  [k \in 1..Len(shape) |-> idx[k] % shape[k]]
    IN  Eager([i \in 0..(ProdSeq(newShape) - 1) |-> x[RavelIndex(src(i), shape)]])

-----------------------------------------------------------------------------
(* Domain (bayesian/__init__.py).                                          *)

\* Domain.nb_states
DomainNbStates(dom) == Eager([k \in 1..Len(dom) |-> nb_states(dom[k])])

\* Domain.size
DomainSize(dom) == ProdSeq(DomainNbStates(dom))

\* Domain.__new__ without the test for duplicates.
DomainNewAcceptsDuplicates(iterable) ==
    IF Len(iterable) = 0 THEN "ValueError" ELSE "ok"

\* Domain.__new__: "ok" or the exception raised.
DomainNew(iterable) ==
    IF Len(iterable) = 0 THEN "ValueError"
    ELSE IF Cardinality(Range(iterable)) # Len(iterable) THEN "ValueError"
    ELSE "ok"

\* Domain.__mul__: concatenation, duplicates removed, first occurrence kept.
RECURSIVE Unique(_, _)
Unique(s, seen) ==
    IF s = <<>> THEN <<>>
    ELSE IF Head(s) \in seen THEN Unique(Tail(s), seen)
    ELSE <<Head(s)>> \o Unique(Tail(s), seen \cup {Head(s)})

DomainMul(left, right) == Unique(left \o right, {})

\* The domains a caller can construct, at most n variables long.
Domains(n) == Arrangements(Vars, n)

\* A Domain object, the exception a Domain operation raised, or nothing yet.
MkDomain(iterable) ==
    [kind |-> "domain", exc |-> "", variables |-> iterable,
     nb_states |-> DomainNbStates(iterable), size |-> DomainSize(iterable)]

DomainRaise(e) ==
    [kind |-> "error", exc |-> e, variables |-> <<>>, nb_states |-> <<>>, size |-> 0]

NoDomain ==
    [kind |-> "none", exc |-> "", variables |-> <<>>, nb_states |-> <<>>, size |-> 0]

\* Domain(iterable): Domain.__new__ with the object it returns.
Domain(iterable) ==
    IF DomainNew(iterable) = "ok" THEN MkDomain(iterable)
    ELSE DomainRaise(DomainNew(iterable))

\* Domain.__sub__ that drops the first variable whatever the argument.
DomainSubDropsFirst(self, variable) ==
    IF variable \notin Range(self.variables) THEN DomainRaise("ValueError")
    ELSE Domain(Tail(self.variables))

\* Domain.__sub__
DomainSub(self, variable) ==
    IF variable \notin Range(self.variables) THEN DomainRaise("ValueError")
    ELSE Domain(SelectSeq(self.variables, LAMBDA v : v # variable))

\* Domain defines no comparison: ==, <= and >= are those of tuple. The first
\* index at which the two tuples differ, 0 when one is a prefix of the other.
FirstDifference(v, w) ==
    LET n == IF Len(v) < Len(w) THEN Len(v) ELSE Len(w)
        D == {i \in 1..n : v[i] # w[i]}
    IN  IF D = {} THEN 0 ELSE CHOOSE i \in D : \A j \in D : i <= j

\* tuple comparison: decided by the lengths when no pair of items differs;
\* otherwise == is false, and <= and >= compare the first differing pair of
\* items, two Variable objects, which define no ordering: TypeError.
TupleCompare(v, w, op) ==
    IF FirstDifference(v, w) = 0
    THEN CASE op = "==" -> IF Len(v) = Len(w) THEN "True" ELSE "False"
           [] op = "<=" -> IF Len(v) <= Len(w) THEN "True" ELSE "False"
           [] op = ">=" -> IF Len(v) >= Len(w) THEN "True" ELSE "False"
    ELSE IF op = "==" THEN "False"
    ELSE "TypeError"

-----------------------------------------------------------------------------
(* map(subdomain, domain) (bayesian/__init__.py).                          *)

\* suborder = tuple(subdomain_reordered.index(v) for v in subdomain)
map_suborder(subdomain, subdomain_reordered) ==
    Eager([j \in 1..Len(subdomain) |-> IndexOf(subdomain_reordered, subdomain[j])])

map(subdomain, domain) ==
    LET subdomain_reordered == Filter(domain, Range(subdomain))
        suborder == map_suborder(subdomain, subdomain_reordered)
        subindices == NpArange(DomainSize(subdomain))
        reordered_subindices ==
            NpTransposeRavel(subindices, DomainNbStates(subdomain), suborder)
        new_shape == Eager([k \in 1..Len(domain) |->
                        IF domain[k] \in Range(subdomain)
                        THEN nb_states(domain[k]) ELSE 1])
        reps == Eager([k \in 1..Len(domain) |->
                    IF domain[k] \in Range(subdomain)
                    THEN 1 ELSE nb_states(domain[k])])
    IN  NpTileRavel(reordered_subindices, new_shape, reps)

\* The flat index in sub of the assignment that flat index i of full denotes.
RestrictedIndex(sub, full, i) ==
    LET idx == Unravel(i, DomainNbStates(full))
    IN  RavelIndex([j \in 1..Len(sub) |-> idx[IndexOf(full, sub[j]) + 1]],
                   DomainNbStates(sub))

-----------------------------------------------------------------------------
(* Floating point numbers, idealised as exact non-negative rationals.      *)

RECURSIVE GCD(_, _)
GCD(x, y) == IF y = 0 THEN x ELSE GCD(y, x % y)

\* n / d in lowest terms (d > 0).
Rat(n, d) == LET g == GCD(n, d) IN <<n \div g, d \div g>>

NaN == <<0, 0>>
Inf == <<1, 0>>
Zero == <<0, 1>>
One == <<1, 1>>

IsFinite(x) == x[2] # 0

RMul(x, y) ==
    IF IsFinite(x) /\ IsFinite(y) THEN Rat(x[1] * y[1], x[2] * y[2])
    ELSE IF x = NaN \/ y = NaN \/ x = Zero \/ y = Zero THEN NaN
    ELSE Inf

RAdd(x, y) ==
    IF IsFinite(x) /\ IsFinite(y) THEN Rat(x[1] * y[2] + y[1] * x[2], x[2] * y[2])
    ELSE IF x = NaN \/ y = NaN THEN NaN
    ELSE Inf

\* x / y as numpy divides float64: 0/0 is nan, x/0 is inf, nothing is raised.
RDiv(x, y) ==
    IF IsFinite(x) /\ IsFinite(y)
    THEN (IF y[1] # 0 THEN Rat(x[1] * y[2], x[2] * y[1])
          ELSE IF x[1] = 0 THEN NaN ELSE Inf)
    ELSE IF IsFinite(x) /\ y = Inf THEN Zero
    ELSE IF x = Inf /\ IsFinite(y) THEN Inf
    ELSE NaN

\* np.sum(x) of a flat array of n numbers.
RECURSIVE RSumTo(_, _)
RSumTo(x, n) == IF n = 0 THEN Zero ELSE RAdd(x[n - 1], RSumTo(x, n - 1))

NpSum(x) == RSumTo(x, ArrLen(x))

\* np.sum(x.reshape(shape), axis), raveled; axis is 0-based.
NpSumAxis(x, shape, axis) ==
    LET newShape == Eager([k \in 1..(Len(shape) - 1) |->
                        IF k <= axis THEN shape[k] ELSE shape[k + 1]])
        at(i, s) == LET idx == Unravel(i, newShape)
                    IN  [k \in 1..Len(shape) |->
                            IF k <= axis THEN idx[k]
                            ELSE IF k = axis + 1 THEN s
                            ELSE idx[k - 1]]
        term(i) == Eager([s \in 0..(shape[axis + 1] - 1) |->
                            x[RavelIndex(at(i, s), shape)]])
    IN  Eager([i \in 0..(ProdSeq(newShape) - 1) |-> RSumTo(term(i), shape[axis + 1])])

\* np.array(values) of integers as floats.
AsFloats(x) == Eager([i \in DOMAIN x |-> <<x[i], 1>>])

-----------------------------------------------------------------------------
(* Table (bayesian/_core.py). A call returns a table or raises.            *)

Raise(e) == [kind |-> "error", exc |-> e,
             domain |-> <<>>, values |-> <<>>, normalization |-> Zero]

MkTable(d, v, n) == [kind |-> "table", exc |-> "",
                     domain |-> d, values |-> Eager(v), normalization |-> n]

IsTable(t) == t.kind = "table"

\* No table yet.
NoTable == [kind |-> "none", exc |-> "",
            domain |-> <<>>, values |-> <<>>, normalization |-> Zero]

\* Table.__init__ that forgets the normalization it is given.
TableInitDropsNormalization(domain, values, normalization) ==
    IF DomainNew(domain) # "ok" THEN Raise("ValueError")
    ELSE LET coefficient == NpSum(values)
         IN  IF coefficient # Zero
             THEN MkTable(domain,
                          [i \in DOMAIN values |-> RDiv(values[i], coefficient)],
                          coefficient)
             ELSE MkTable(domain, values, normalization)

\* Table.__init__(domain, values, normalization) with values given.
TableInit(domain, values, normalization) ==
    IF DomainNew(domain) # "ok" THEN Raise("ValueError")
    ELSE LET coefficient == NpSum(values)
         IN  IF coefficient # Zero
             THEN MkTable(domain,
                          [i \in DOMAIN values |-> RDiv(values[i], coefficient)],
                          RMul(normalization, coefficient))
             ELSE MkTable(domain, values, normalization)

\* Table.normalize (in place): the new value of the table.
TableNormalize(t) ==
    LET n == NpSum(t.values)
    IN  MkTable(t.domain, [i \in DOMAIN t.values |-> RDiv(t.values[i], n)], n)

\* Table.unnormalize (in place): the new value of the table.
TableUnnormalize(t) ==
    MkTable(t.domain,
            [i \in DOMAIN t.values |-> RMul(t.values[i], t.normalization)],
            One)

\* Table.__init__(domain) with values None: all ones, then normalize().
TableInitDefault(domain) ==
    IF DomainNew(domain) # "ok" THEN Raise("ValueError")
    ELSE TableNormalize(MkTable(domain,
                                [i \in 0..(DomainSize(domain) - 1) |-> One],
                                One))

\* Table.marginalize that takes the variable's position for a stride.
TableMarginalizeWrongAxis(t, variable) ==
    IF variable \notin Range(t.domain) THEN Raise("ValueError")
    ELSE LET index == Len(t.domain) - 1 - IndexOf(t.domain, variable)
             new_values == NpSumAxis(t.values, DomainNbStates(t.domain), index)
             new_domain == Filter(t.domain, Range(t.domain) \ {variable})
         IN  TableInit(new_domain, new_values, t.normalization)

\* Table.marginalize(variable)
TableMarginalize(t, variable) ==
    IF variable \notin Range(t.domain) THEN Raise("ValueError")
    ELSE LET index == IndexOf(t.domain, variable)
             new_values == NpSumAxis(t.values, DomainNbStates(t.domain), index)
             new_domain == [k \in 1..(Len(t.domain) - 1) |->
                               IF k <= index THEN t.domain[k] ELSE t.domain[k + 1]]
         IN  TableInit(new_domain, new_values, t.normalization)

\* The permutation_order of Table.__mul__: axis k of the transposed array is
\* the axis of the table on which the k-th variable of `ordered` lies.
permutation_order(domain, ordered) ==
    Eager([k \in 1..Len(ordered) |-> IndexOf(domain, ordered[k])])

\* table_mul (bayesian._optimized), as the loop kept in the comment of
\* _core.py lines 333-335 and in tables.py lines 117-119.
table_mul(left_ravel, right_ravel, left_divide, right_mod, size) ==
    Eager([i \in 0..(size - 1) |->
            RMul(left_ravel[i \div left_divide], right_ravel[i % right_mod])])

\* Table.__mul__(left, right). list(set) yields the set in an order the
\* program does not control: h is a sequence of all variables and every
\* list made of a set comes out in the order of h.
TableMul(left, right, h) ==
    LET left_set == Range(left.domain)
        right_set == Range(right.domain)
        intersection == Filter(h, left_set \cap right_set)
        left_only == Filter(h, left_set \ right_set)
        right_only == Filter(h, right_set \ left_set)
        left_domain == left_only \o intersection
        right_domain == intersection \o right_only
        new_domain == left_only \o intersection \o right_only
        left_values == NpTransposeRavel(left.values, DomainNbStates(left.domain),
                           permutation_order(left.domain, left_domain))
        right_values == NpTransposeRavel(right.values, DomainNbStates(right.domain),
                           permutation_order(right.domain, right_domain))
        left_divide == DomainSize(right_only)
        right_mod == DomainSize(right_domain)
        new_values == table_mul(left_values, right_values, left_divide, right_mod,
                                DomainSize(new_domain))
    IN  TableInit(new_domain, new_values,
                  RMul(left.normalization, right.normalization))

-----------------------------------------------------------------------------
(* Product (bayesian/_junction.py; Product of bayesian/tables.py computes  *)
(* the same update).                                                       *)

\* Product.__init__ followed by Product.update(): the table in self.result.
ProductUpdate(left, right) ==
    LET domain == DomainMul(left.domain, right.domain)
        left_map == map(left.domain, domain)
        right_map == map(right.domain, domain)
        result == TableInitDefault(domain)
        values == Eager([i \in DOMAIN result.values |->
                      RMul(left.values[left_map[i]], right.values[right_map[i]])])
        coefficient == NpSum(values)
    IN  MkTable(domain,
                [i \in DOMAIN values |-> RDiv(values[i], coefficient)],
                RMul(RMul(left.normalization, right.normalization), coefficient))

-----------------------------------------------------------------------------
(* What a table stands for: the factor values x normalization, as a        *)
(* function of the assignment of its variables.                            *)

\* All assignments of a set of variables.
Assignments(S) == {f \in [S -> 0..2] : \A v \in S : f[v] < nb_states(v)}

\* The flat index in a table over dom of (the restriction of) assignment f.
FlatIndex(dom, f) ==
    RavelIndex([k \in 1..Len(dom) |-> f[dom[k]]], DomainNbStates(dom))

\* values[f] x normalization
Factor(t, f) == RMul(t.values[FlatIndex(t.domain, f)], t.normalization)

-----------------------------------------------------------------------------
(* Inputs of the table algebra.                                            *)

\* The variables the table operations are exercised on.
TVars == {"a", "b", "c"}

TDomains == Arrangements(TVars, MaxDomLen)

\* The orders in which a set of these variables may be listed.
HOrders == {h \in Arrangements(TVars, Cardinality(TVars)) : Len(h) = Cardinality(TVars)}

\* Raw values of an input table of n entries: constants and ramps.
InputValues(n) ==
    {[i \in 0..(n - 1) |-> (i * k + j) % (MaxVal + 1)] : k \in 0..1, j \in 0..MaxVal}

\* Raw values of the second operand: ramps only.
InputValuesB(n) ==
    {[i \in 0..(n - 1) |-> (i + j) % (MaxVal + 1)] : j \in 0..MaxVal}

-----------------------------------------------------------------------------
(* Specification SpecMap: calls of map(sub, full) with sub within full.    *)

DomIdle ==
    /\ d_op = "none" /\ d_raw = <<>> /\ d_a = NoDomain /\ d_b = NoDomain
    /\ d_var = "" /\ d_c = NoDomain /\ d_cmp = ""

DagIdle == dag = <<>> /\ dag_op = <<"none", 0>> /\ dag_sets = 0

MapIdle == /\ m_sub = <<>> /\ m_full = <<>> /\ m_out = <<>> /\ DomIdle /\ DagIdle

TabIdle ==
    /\ t_op = "none" /\ t_a = NoTable /\ t_b = NoTable /\ t_var = ""
    /\ t_raw = <<>> /\ t_c = NoTable /\ t_p = NoTable

NetIdle ==
    /\ network = <<>> /\ hash_order = <<>> /\ pc = "idle" /\ exc = ""
    /\ n_var = "" /\ n_order = <<>> /\ n_out = NoTable /\ n_new = <<>>
    /\ n_next = 1 /\ node_order = <<>>

JTIdle ==
    /\ g_nodes = {} /\ links = [v \in Vars |-> {}]
    /\ buckets = <<>> /\ separators = <<>>
    /\ nb_nodes_removed = 0 /\ used_tables = {}
    /\ subgraph_variables = <<>> /\ jt_normalization = One
    /\ jt_marginals = <<>> /\ changes = 0 /\ compiled = 0

\* One call of map(sub, full).
MapCall ==
    /\ m_full = <<>>
    /\ \E full \in Domains(MaxDomLen) :
         \E sub \in Arrangements(Range(full), Len(full)) :
            /\ m_sub' = sub
            /\ m_full' = full
            /\ m_out' = map(sub, full)
    /\ UNCHANGED <<domVars, dagVars, tabVars, netVars, jtVars>>

-----------------------------------------------------------------------------
(* Specification SpecTable: the table algebra on two table objects a, b.   *)

\* One order of HOrders for every way Table.__mul__ can list its three sets.
MulOrders(left, right) ==
    LET groups(h) == <<Filter(h, Range(left.domain) \ Range(right.domain)),
                       Filter(h, Range(left.domain) \cap Range(right.domain)),
                       Filter(h, Range(right.domain) \ Range(left.domain))>>
    IN  {CHOOSE h \in HOrders : groups(h) = g : g \in {groups(h) : h \in HOrders}}

\* a = Table(domain, values, normalization)
NewTableA ==
    /\ t_op = "none"
    /\ \E dom \in TDomains, n \in 1..MaxNorm :
         \E vals \in InputValues(DomainSize(dom)) :
            /\ t_raw' = <<dom, vals, n>>
            /\ t_a' = TableInit(dom, AsFloats(vals), <<n, 1>>)
            /\ t_c' = t_a'
    /\ t_op' = "init"
    /\ UNCHANGED <<t_b, t_var, t_p, mapVars, netVars, jtVars>>

\* a.unnormalize()
Unnormalize ==
    /\ t_op \in {"init", "normalize"}
    /\ t_a' = TableUnnormalize(t_a)
    /\ t_op' = "unnormalize"
    /\ t_raw' = <<t_a>>
    /\ t_c' = NoTable
    /\ UNCHANGED <<t_b, t_var, t_p, mapVars, netVars, jtVars>>

\* a.normalize()
Normalize ==
    /\ t_op \in {"init", "unnormalize"}
    /\ t_a' = TableNormalize(t_a)
    /\ t_op' = "normalize"
    /\ t_raw' = <<t_a>>
    /\ t_c' = NoTable
    /\ UNCHANGED <<t_b, t_var, t_p, mapVars, netVars, jtVars>>

\* c = a.marginalize(v)
Marginalize ==
    /\ t_op \in {"init", "unnormalize", "normalize"}
    /\ \E v \in TVars :
         /\ t_var' = v
         /\ t_c' = TableMarginalize(t_a, v)
    /\ t_op' = "marginalize"
    /\ t_raw' = <<>>
    /\ UNCHANGED <<t_a, t_b, t_p, mapVars, netVars, jtVars>>

\* b = Table(domain, values)
NewTableB ==
    /\ t_op = "init"
    /\ \E dom \in TDomains :
         \E vals \in InputValuesB(DomainSize(dom)) :
            /\ t_raw' = <<dom, vals, 1>>
            /\ t_b' = TableInit(dom, AsFloats(vals), One)
            /\ t_c' = t_b'
    /\ t_op' = "init_b"
    /\ UNCHANGED <<t_a, t_var, t_p, mapVars, netVars, jtVars>>

\* c = a * b, and the same product through a Product node.
Mul ==
    /\ t_op = "init_b"
    /\ \E h \in MulOrders(t_a, t_b) : t_c' = TableMul(t_a, t_b, h)
    /\ t_p' = ProductUpdate(t_a, t_b)
    /\ t_op' = "mul"
    /\ t_raw' = <<>>
    /\ UNCHANGED <<t_a, t_b, t_var, mapVars, netVars, jtVars>>

MapInit == MapIdle /\ TabIdle /\ NetIdle /\ JTIdle
MapNext == MapCall
SpecMap == MapInit /\ [][MapNext]_vars

TabInit == MapIdle /\ TabIdle /\ NetIdle /\ JTIdle
TabNext == NewTableA \/ NewTableB \/ Unnormalize \/ Normalize \/ Mul \/ Marginalize
SpecTable == TabInit /\ [][TabNext]_vars

-----------------------------------------------------------------------------
(* Specification SpecDomain: construction, comparison and subtraction of   *)
(* Domain objects.                                                         *)

\* The iterables a caller hands to Domain(...): any list of variables,
\* empty and repeating ones included.
Iterables == UNION {[1..n -> TVars] : n \in 0..MaxDomLen}

\* a = Domain(iterable)
NewDomainA ==
    /\ d_op = "none"
    /\ \E iterable \in Iterables :
         /\ d_raw' = iterable
         /\ d_a' = Domain(iterable)
    /\ d_op' = "new"
    /\ UNCHANGED <<d_b, d_var, d_c, d_cmp, m_sub, m_full, m_out,
                   dagVars, tabVars, netVars, jtVars>>

\* b = Domain(iterable)
NewDomainB ==
    /\ d_op = "new" /\ d_a.kind = "domain"
    /\ \E iterable \in Iterables :
         /\ d_raw' = iterable
         /\ d_b' = Domain(iterable)
    /\ d_op' = "new b"
    /\ UNCHANGED <<d_a, d_var, d_c, d_cmp, m_sub, m_full, m_out,
                   dagVars, tabVars, netVars, jtVars>>

\* a == b, a <= b, a >= b
Compare ==
    /\ d_op = "new b" /\ d_b.kind = "domain"
    /\ \E op \in {"==", "<=", ">="} :
         /\ d_cmp' = TupleCompare(d_a.variables, d_b.variables, op)
         /\ d_op' = op
    /\ UNCHANGED <<d_raw, d_a, d_b, d_var, d_c, m_sub, m_full, m_out,
                   dagVars, tabVars, netVars, jtVars>>

\* a - variable
DomainMinus ==
    /\ d_op = "new" /\ d_a.kind = "domain"
    /\ \E variable \in TVars :
         /\ d_var' = variable
         /\ d_c' = DomainSub(d_a, variable)
    /\ d_op' = "-"
    /\ UNCHANGED <<d_raw, d_a, d_b, d_cmp, m_sub, m_full, m_out,
                   dagVars, tabVars, netVars, jtVars>>

DomInit == MapIdle /\ TabIdle /\ NetIdle /\ JTIdle
DomNext == NewDomainA \/ NewDomainB \/ Compare \/ DomainMinus
SpecDomain == DomInit /\ [][DomNext]_vars

-----------------------------------------------------------------------------
(* The update graph of bayesian/tables.py: Probability leaves, Product and *)
(* Marginal nodes. A node is named by its position in dag; left and right  *)
(* name the nodes it was given to add(), 0 for none.                       *)

\* Probability.__init__(domain) with values None: the setter on np.ones.
Probability(type, left, right, variable, domain) ==
    [type |-> type, left |-> left, right |-> right, variable |-> variable,
     domain |-> domain,
     values |-> Eager([i \in 0..(DomainSize(domain) - 1) |->
                          Rat(1, DomainSize(domain))]),
     normalization |-> <<DomainSize(domain), 1>>,
     updated |-> FALSE]

\* The nodes a node was given with add(): its children.
Children(d, i) == {d[i].left, d[i].right} \ {0}

\* The predicate of the setter that forgets `node is self`.
invalidate_parents_updated_only(d, self, node) == d[node].updated

\* invalidate_parents(node) of the values setter of node `self`.
invalidate_parents(d, self, node) == node = self \/ d[node].updated

RECURSIVE ancestors(_, _, _)
\* self.ancestors(invalidate_parents): the nodes met going from self to the
\* nodes that hold it, going on beyond the nodes the predicate accepts.
ancestors(d, self, met) ==
    LET next == {k \in DOMAIN d \ met :
                    \E n \in met : /\ n \in Children(d, k)
                                   /\ invalidate_parents(d, self, n)}
    IN  IF next = {} THEN met ELSE ancestors(d, self, met \cup next)

\* The setter of Probability.values on a leaf: the exception raised ("" for
\* none) and the graph afterwards.
SetValues(d, self, new_values) ==
    IF ArrLen(new_values) # DomainSize(d[self].domain)
    THEN [exc |-> "ValueError", dag |-> d]
    ELSE IF NpSum(new_values) = Zero
    THEN [exc |-> "ValueError", dag |-> d]
    ELSE [exc |-> "",
          dag |-> [k \in DOMAIN d |->
            IF k = self
            THEN [d[k] EXCEPT
                    !.values = Eager([i \in DOMAIN new_values |->
                                  RDiv(new_values[i], NpSum(new_values))]),
                    !.normalization = NpSum(new_values),
                    !.updated = FALSE]
            ELSE IF k \in ancestors(d, self, {self})
                 THEN [d[k] EXCEPT !.updated = FALSE]
                 ELSE d[k]]]

\* Marginal.update that leaves the normalization as it was.
MarginalUpdateKeepsNormalization(d, i) ==
    IF d[i].updated THEN d[i]
    ELSE [d[i] EXCEPT
            !.values = NpSumAxis(d[d[i].left].values,
                                 DomainNbStates(d[d[i].left].domain),
                                 IndexOf(d[d[i].left].domain, d[i].variable)),
            !.updated = TRUE]

\* The body of Marginal.update on node i.
MarginalUpdate(d, i) ==
    IF d[i].updated THEN d[i]
    ELSE [d[i] EXCEPT
            !.values = NpSumAxis(d[d[i].left].values,
                                 DomainNbStates(d[d[i].left].domain),
                                 IndexOf(d[d[i].left].domain, d[i].variable)),
            !.normalization = d[d[i].left].normalization,
            !.updated = TRUE]

\* The end of Product.update: the node takes the values and the
\* normalization of the product and is marked updated.
ProductStored(node, result) ==
    [node EXCEPT !.values = Eager(result.values),
                 !.normalization = result.normalization,
                 !.updated = TRUE]

\* The body of Product.update on node i.
ProductNodeUpdate(d, i) ==
    IF d[i].updated THEN d[i]
    ELSE ProductStored(d[i], ProductUpdate(d[d[i].left], d[d[i].right]))

\* The body of update() on node i: Probability.update does nothing.
UpdateSelf(d, i) ==
    [d EXCEPT ![i] = CASE d[i].type = "Marginal" -> MarginalUpdate(d, i)
                       [] d[i].type = "Product" -> ProductNodeUpdate(d, i)
                       [] OTHER -> d[i]]

RECURSIVE update(_, _)
\* node.update() under @postorder('method'): the nodes below first, then
\* the node itself.
update(d, i) ==
    IF i = 0 THEN d
    ELSE UpdateSelf(update(update(d, d[i].left), d[i].right), i)

-----------------------------------------------------------------------------
(* Specification SpecDag: an update graph is built, its leaves are given   *)
(* values and its nodes are updated, in any order.                         *)

\* The constructor calls the model makes for the k-th object: the graph is
\* a leaf over (b, a), a leaf over (a), their product, a marginal of it and
\* a product that shares a node with that marginal, then a marginal again.
NodeChoices(k) ==
    CASE k = 1 -> {[type |-> "Probability", left |-> 0, right |-> 0,
                    variable |-> "", domain |-> <<"b", "a">>]}
      [] k = 2 -> {[type |-> "Probability", left |-> 0, right |-> 0,
                    variable |-> "", domain |-> <<"a">>]}
      [] k = 3 -> {[type |-> "Product", left |-> 1, right |-> 2,
                    variable |-> "", domain |-> <<>>],
                   [type |-> "Product", left |-> 2, right |-> 1,
                    variable |-> "", domain |-> <<>>]}
      [] k = 4 -> {[type |-> "Marginal", left |-> 3, right |-> 0,
                    variable |-> v, domain |-> <<>>] : v \in {"a", "b"}}
      [] k = 5 -> {[type |-> "Product", left |-> l, right |-> 4,
                    variable |-> "", domain |-> <<>>] : l \in {1, 3}}
      [] OTHER -> {[type |-> "Marginal", left |-> k - 1, right |-> 0,
                    variable |-> "a", domain |-> <<>>]}

\* The values a caller assigns to a leaf of n entries: all zeros (refused),
\* all ones, a ramp.
LeafValues(n) ==
    {[i \in 0..(n - 1) |-> Zero], [i \in 0..(n - 1) |-> One],
     [i \in 0..(n - 1) |-> <<i + 1, 1>>]}

\* The graph is still being built.
Building == dag_op[1] \in {"none", "new"} /\ Len(dag) < MaxNodes

\* Probability(domain)
NewProbability ==
    /\ Building
    /\ \E c \in NodeChoices(Len(dag) + 1) :
         /\ c.type = "Probability"
         /\ dag' = Append(dag, Probability("Probability", 0, 0, "", c.domain))
    /\ dag_op' = <<"new", Len(dag) + 1>>
    /\ UNCHANGED <<dag_sets, m_sub, m_full, m_out, domVars,
                   tabVars, netVars, jtVars>>

\* Product(left, right)
NewProduct ==
    /\ Building
    /\ \E c \in NodeChoices(Len(dag) + 1) :
         /\ c.type = "Product"
         /\ dag' = Append(dag, Probability("Product", c.left, c.right, "",
                           DomainMul(dag[c.left].domain, dag[c.right].domain)))
    /\ dag_op' = <<"new", Len(dag) + 1>>
    /\ UNCHANGED <<dag_sets, m_sub, m_full, m_out, domVars,
                   tabVars, netVars, jtVars>>

\* Marginal(table, variable), where the constructor returns.
NewMarginal ==
    /\ Building
    /\ \E c \in NodeChoices(Len(dag) + 1) :
         /\ c.type = "Marginal"
         /\ DomainSub(MkDomain(dag[c.left].domain), c.variable).kind = "domain"
         /\ dag' = Append(dag, Probability("Marginal", c.left, 0, c.variable,
                 DomainSub(MkDomain(dag[c.left].domain), c.variable).variables))
    /\ dag_op' = <<"new", Len(dag) + 1>>
    /\ UNCHANGED <<dag_sets, m_sub, m_full, m_out, domVars,
                   tabVars, netVars, jtVars>>

\* leaf.values = new_values
Assign ==
    /\ dag_sets < MaxSets
    /\ \E self \in {k \in DOMAIN dag : dag[k].type = "Probability"} :
       \E new_values \in LeafValues(DomainSize(dag[self].domain)) :
       \E after \in {SetValues(dag, self, new_values)} :
         /\ dag' = after.dag
         /\ dag_op' = <<IF after.exc = "" THEN "set" ELSE after.exc, self>>
    /\ dag_sets' = dag_sets + 1
    /\ UNCHANGED <<m_sub, m_full, m_out, domVars, tabVars, netVars, jtVars>>

\* node.update()
Update ==
    /\ \E node \in DOMAIN dag :
         /\ dag' = update(dag, node)
         /\ dag_op' = <<"update", node>>
    /\ UNCHANGED <<dag_sets, m_sub, m_full, m_out, domVars,
                   tabVars, netVars, jtVars>>

DagInit == MapIdle /\ TabIdle /\ NetIdle /\ JTIdle
DagNext == NewProbability \/ NewProduct \/ NewMarginal \/ Assign \/ Update
SpecDag == DagInit /\ [][DagNext]_vars

-----------------------------------------------------------------------------
(* Network (bayesian/_core.py): a list of tables. Network.marginalize and  *)
(* Network.marginal return new networks and tables; the tables of the      *)
(* network are not modified.                                               *)

\* An operand that is an exception already raised, or None.
MulE(left, right, h) ==
    IF left.kind = "error" THEN left
    ELSE IF right.kind = "error" THEN right
    ELSE IF left.kind = "none" THEN Raise("TypeError")
    ELSE IF right.kind = "none" THEN Raise("AttributeError")
    ELSE TableMul(left, right, h)

\* left.marginalize(variable) where left may be an exception already raised.
MarginalizeE(t, variable) ==
    IF t.kind = "error" THEN t
    ELSE IF t.kind = "none" THEN Raise("AttributeError")
    ELSE TableMarginalize(t, variable)

RECURSIVE ReduceFrom(_, _, _, _)
\* The fold of reduce over the tables after the first.
ReduceFrom(acc, tables, k, h) ==
    IF k > Len(tables) THEN acc
    ELSE ReduceFrom(MulE(acc, tables[k], h), tables, k + 1, h)

\* reduce(Table.__mul__, tables): TypeError on an empty list.
ReduceMul(tables, h) ==
    IF tables = <<>> THEN Raise("TypeError")
    ELSE ReduceFrom(tables[1], tables, 2, h)

RECURSIVE MarginalizeAll(_, _)
\* new_table.marginalize(v) for the variables of a list, one after another.
MarginalizeAll(t, variables) ==
    IF variables = <<>> THEN t
    ELSE MarginalizeAll(MarginalizeE(t, Head(variables)), Tail(variables))

\* The variables of the tables of a network.
NetworkVariables(tables) == UNION {Range(tables[i].domain) : i \in DOMAIN tables}

\* Network.domain: list(set(domain)).
NetworkDomain(tables, h) == Filter(h, NetworkVariables(tables))

\* The sub-list of a list at the positions of a set.
SubList(s, keep) ==
    LET F[i \in 0..Len(s)] ==
            IF i = 0 THEN <<>>
            ELSE IF i \in keep THEN Append(F[i - 1], s[i]) ELSE F[i - 1]
    IN  F[Len(s)]

\* Network.get_tables(variables): the positions of the tables returned.
get_tables(tables, variables) ==
    {i \in DOMAIN tables : Range(tables[i].domain) \cap variables # {}}

\* Network.marginalize(variable): the tables of the new network, or the
\* exception raised.
NetworkMarginalize(tables, variable, h) ==
    LET with == get_tables(tables, {variable})
        new_table == MarginalizeE(ReduceMul(SubList(tables, with), h), variable)
    IN  IF new_table.kind = "error" THEN <<new_table>>
        ELSE Append(SubList(tables, DOMAIN tables \ with), new_table)

RECURSIVE NetworkMarginalLoop(_, _, _, _)
\* The loop of Network.marginal over the variables of the domain.
NetworkMarginalLoop(tables, variable, domain, h) ==
    IF domain = <<>> \/ (tables # <<>> /\ tables[1].kind = "error") THEN tables
    ELSE IF Head(domain) = variable
         THEN NetworkMarginalLoop(tables, variable, Tail(domain), h)
         ELSE NetworkMarginalLoop(NetworkMarginalize(tables, Head(domain), h),
                                  variable, Tail(domain), h)

\* Network.marginal(variable), the domain being listed in `order`.
NetworkMarginal(tables, variable, order, h) ==
    LET left == NetworkMarginalLoop(tables, variable,
                                    Filter(order, NetworkVariables(tables)), h)
    IN  IF left # <<>> /\ left[1].kind = "error" THEN left[1]
        ELSE ReduceMul(left, h)

-----------------------------------------------------------------------------
(* Networks: tables taken, in this order, from a list of candidate tables. *)

\* The domains of the candidate tables.
CandidateDomains ==
    << <<"a">>, <<"b", "a">>, <<"b", "c">>, <<"c", "d">>, <<"d", "a">>,
       <<"a", "c">>, <<"d">>, <<"a">>, <<"a">> >>

NbCandidates == Len(CandidateDomains)

\* The raw values of candidate k: positive entries, except for the last two
\* candidates, which are the two hard evidences on "a".
CandidateValues(k) ==
    IF k = NbCandidates - 1 THEN [i \in 0..1 |-> 1 - i]
    ELSE IF k = NbCandidates THEN [i \in 0..1 |-> i]
    ELSE [i \in 0..(DomainSize(CandidateDomains[k]) - 1) |->
             1 + ((i + (i \div 2) + k) % MaxVal)]

\* Candidate k as the caller builds it: Table(domain, values, normalization).
Candidate(k) ==
    TableInit(CandidateDomains[k], AsFloats(CandidateValues(k)),
              <<1 + (k % MaxNorm), 1>>)

\* The orders in which a run may list the variables of a set.
NetOrders == {<<"a", "b", "c", "d">>, <<"d", "b", "a", "c">>}

\* The orders in which a run may list the nodes of a set.
NodeOrders == {<<"a", "b", "c", "d">>, <<"c", "d", "b", "a">>}

\* Network.add_table(table)
AddTable ==
    /\ pc = "network"
    /\ Len(network) < MaxTables
    /\ \E k \in n_next..NbCandidates :
            /\ network' = Append(network, Candidate(k))
            /\ n_next' = k + 1
    /\ UNCHANGED <<hash_order, node_order, pc, exc, n_var, n_order, n_out, n_new,
                   mapVars, tabVars, jtVars>>

\* Network.marginal(variable)
Marginal ==
    /\ pc = "network"
    /\ \E variable \in NetworkVariables(network) :
       \E order \in NetOrders :
            LET out == NetworkMarginal(network, variable, order, hash_order)
            IN  /\ n_var' = variable
                /\ n_order' = order
                /\ n_out' = out
                /\ exc' = out.exc
    /\ pc' = "marginal"
    /\ UNCHANGED <<network, n_next, n_new, hash_order, node_order,
                   mapVars, tabVars, jtVars>>

\* new_network = network.marginalize(variable)
Marginalized ==
    /\ pc = "network"
    /\ \E variable \in NetworkVariables(network) :
       \E new \in {NetworkMarginalize(network, variable, hash_order)} :
            /\ n_var' = variable
            /\ n_new' = IF new[1].kind = "error" THEN <<>> ELSE new
            /\ exc' = new[1].exc
    /\ pc' = "marginalized"
    /\ UNCHANGED <<network, n_next, n_order, n_out, hash_order, node_order,
                   mapVars, tabVars, jtVars>>

NetInit ==
    /\ MapIdle /\ TabIdle /\ JTIdle
    /\ network = <<>> /\ n_next = 1 /\ pc = "network" /\ exc = ""
    /\ hash_order \in NetOrders /\ node_order \in NodeOrders
    /\ n_var = "" /\ n_order = <<>> /\ n_out = NoTable /\ n_new = <<>>

NetNext == AddTable \/ Marginal \/ Marginalized
SpecNet == NetInit /\ [][NetNext]_vars

-----------------------------------------------------------------------------
(* DomainGraph and Node (bayesian/_domain.py). The node of a variable is   *)
(* named by the variable; nodes is a set of nodes and lnk gives the _links *)
(* of every node.                                                          *)

\* The first element of a set in the order a run lists it; "" for None.
FirstIn(order, S) ==
    IF S \cap Range(order) = {} THEN ""
    ELSE order[CHOOSE i \in DOMAIN order :
                   order[i] \in S /\ \A j \in 1..(i - 1) : order[j] \notin S]

\* Node.add_link that records the link on one node only.
add_link_one_way(lnk, v, w) == [lnk EXCEPT ![v] = @ \cup {w}]

\* Node.add_link: the link is added to both nodes.
add_link(lnk, v, w) == [lnk EXCEPT ![v] = @ \cup {w}, ![w] = @ \cup {v}]

RECURSIVE add_links(_, _)
\* node.add_link(self.get_node(v2)) for every pair <<v1, v2>> of a set.
add_links(lnk, pairs) ==
    IF pairs = {} THEN lnk
    ELSE LET p == CHOOSE q \in pairs : TRUE
         IN  add_links(add_link(lnk, p[1], p[2]), pairs \ {p})

\* DomainGraph._build_from_network: the links between the nodes, one for
\* every combination of two variables of the domain of every table.
DomainGraphLinks(tables) ==
    add_links([v \in Vars |-> {}],
              UNION {{<<tables[t].domain[p[1]], tables[t].domain[p[2]]>> :
                          p \in {q \in (DOMAIN tables[t].domain)
                                         \X (DOMAIN tables[t].domain) :
                                     q[1] < q[2]}} :
                     t \in DOMAIN tables})

\* Node.family
family(lnk, v) == lnk[v] \cup {v}

\* Node.is_isolated
is_isolated(lnk, v) == lnk[v] = {}

\* Node.is_simplicial
is_simplicial(lnk, v) ==
    \A x \in lnk[v] : \A y \in lnk[v] \ {x} : x \in lnk[y]

\* Node.missing_links()
missing_links(lnk, v) ==
    Cardinality({p \in SUBSET lnk[v] :
        Cardinality(p) = 2 /\ \E x \in p : \E y \in p \ {x} : x \notin lnk[y]})

\* Node.make_simplicial(): the links afterwards.
make_simplicial(lnk, v) ==
    [n \in DOMAIN lnk |-> IF n \in lnk[v] THEN lnk[n] \cup (lnk[v] \ {n}) ELSE lnk[n]]

\* DomainGraph.isolated_node
isolated_node(nodes, lnk, order) ==
    FirstIn(order, {n \in nodes : is_isolated(lnk, n)})

\* DomainGraph.simplicial_node
simplicial_node(nodes, lnk, order) ==
    FirstIn(order, {n \in nodes : is_simplicial(lnk, n)})

\* DomainGraph.get_minimal_family(): the first node no other node has a
\* smaller family than.
get_minimal_family(nodes, lnk, order) ==
    FirstIn(order, {n \in nodes : \A o \in nodes :
        Cardinality(family(lnk, n)) <= Cardinality(family(lnk, o))})

\* DomainGraph.get_almost_simplicial()
get_almost_simplicial(nodes, lnk, order) ==
    FirstIn(order, {n \in nodes : \A o \in nodes :
        missing_links(lnk, n) <= missing_links(lnk, o)})

\* DomainGraph.remove_node for every node of a set: the links afterwards.
\* The nodes of the copy are the nodes of the graph it was copied from, so
\* the links are removed from both.
remove_nodes(nodes, lnk, removed) ==
    [n \in DOMAIN lnk |-> IF n \in removed THEN lnk[n] \ nodes
                    ELSE IF n \in nodes THEN lnk[n] \ removed
                    ELSE lnk[n]]

-----------------------------------------------------------------------------
(* JunctionTree (bayesian/_junction.py). Buckets and separators are named  *)
(* by their position in JunctionTree.buckets and JunctionTree.separators,  *)
(* 0 standing for None; the tables of a bucket are named by their position *)
(* in the network, so that a bucket sees the changes made to a table.      *)

Bucket(variables) ==
    [variables |-> variables, out |-> 0, separators |-> <<>>,
     tables |-> <<>>, index |-> -1]

Separator(variables) ==
    [variables |-> variables, index |-> 0, downward |-> 0, upward |-> 0,
     upbound |-> NoTable, downbound |-> NoTable]

\* A set of positions as a list.
RECURSIVE AsList(_)
AsList(S) ==
    IF S = {} THEN <<>>
    ELSE LET x == CHOOSE y \in S : \A z \in S : y <= z
         IN  <<x>> \o AsList(S \ {x})

\* The tables of `variables`, those given to an earlier bucket included.
bucket_tables_used_too(tables, variables, used) ==
    AsList(get_tables(tables, variables))

\* list(set(possible_tables) - used_tables) for the tables of `variables`.
bucket_tables(tables, variables, used) ==
    AsList(get_tables(tables, variables) \ used)

\* JunctionTree.__init__ up to the copy of the domain graph in
\* _build_from_graph.
JTInit ==
    /\ pc = "network"
    /\ g_nodes' = NetworkVariables(network)
    /\ links' = DomainGraphLinks(network)
    /\ buckets' = <<>> /\ separators' = <<>>
    /\ nb_nodes_removed' = 0 /\ used_tables' = {}
    /\ subgraph_variables' = <<>> /\ jt_normalization' = One
    /\ pc' = "isolated"
    /\ compiled' = Len(network)
    /\ UNCHANGED <<jt_marginals, changes, network, n_next, hash_order, node_order,
                   exc, n_var, n_order, n_out, n_new, mapVars, tabVars>>

\* One turn of the loop on isolated nodes, or its exit.
IsolatedStep ==
    /\ pc = "isolated"
    /\ LET isolated == isolated_node(g_nodes, links, node_order)
       IN  IF isolated = ""
           THEN /\ pc' = "eliminate"
                /\ UNCHANGED <<g_nodes, links, buckets, used_tables, subgraph_variables>>
           ELSE LET tabs == bucket_tables(network, {isolated}, used_tables)
                IN  /\ buckets' = Append(buckets,
                                         [Bucket({isolated}) EXCEPT !.tables = tabs])
                    /\ subgraph_variables' = Append(subgraph_variables, isolated)
                    /\ used_tables' = used_tables \cup Range(tabs)
                    /\ links' = remove_nodes(g_nodes, links, {isolated})
                    /\ g_nodes' = g_nodes \ {isolated}
                    /\ pc' = "isolated"
    /\ UNCHANGED <<separators, nb_nodes_removed, jt_normalization, jt_marginals,
                   changes, compiled, network, n_next, hash_order, node_order,
                   exc, n_var, n_order, n_out, n_new, mapVars, tabVars>>

\* The whole family, whatever the neighbours of its nodes.
nodes_in_family_all(lnk, fam) == fam

\* The nodes of the family that have neighbours only in the family.
nodes_in_family_only(lnk, fam) == {n \in fam : family(lnk, n) \subseteq fam}

\* One turn of the loop `while not done`.
EliminateStep ==
    /\ pc = "eliminate"
    /\ IF g_nodes = {}
       THEN \* get_minimal_family() returns None
            /\ pc' = "raised" /\ exc' = "AttributeError"
            /\ UNCHANGED <<g_nodes, links, buckets, separators, nb_nodes_removed,
                           used_tables, subgraph_variables>>
       ELSE LET found == simplicial_node(g_nodes, links, node_order)
                node == IF found = ""
                        THEN get_minimal_family(g_nodes, links, node_order)
                        ELSE found
                lnk == IF found = "" THEN make_simplicial(links, node) ELSE links
                fam == family(lnk, node)
                last == ~(Cardinality(fam) < Cardinality(g_nodes))
                nodes_to_remove ==
                    IF last THEN fam
                    ELSE nodes_in_family_only(lnk, fam)
                nodes_to_keep == fam \ nodes_to_remove
                removed == IF last THEN nb_nodes_removed
                           ELSE nb_nodes_removed + Cardinality(nodes_to_remove)
                tabs == bucket_tables(network, nodes_to_remove, used_tables)
                with_sep == ~last /\ nodes_to_keep # {}
                bucket == [Bucket(fam) EXCEPT
                    !.tables = tabs,
                    !.out = IF with_sep THEN Len(separators) + 1 ELSE 0,
                    !.index = IF last
                              THEN Cardinality(g_nodes \cup
                                      UNION {buckets[k].variables : k \in DOMAIN buckets})
                              ELSE removed]
            IN  /\ buckets' = Append(buckets, bucket)
                /\ separators' =
                       IF with_sep
                       THEN Append(separators,
                                [Separator(nodes_to_keep) EXCEPT
                                    !.index = removed,
                                    !.downward = Len(buckets) + 1])
                       ELSE separators
                /\ subgraph_variables' =
                       IF with_sep THEN subgraph_variables
                       ELSE Append(subgraph_variables, FirstIn(node_order, fam))
                /\ nb_nodes_removed' = removed
                /\ used_tables' = used_tables \cup Range(tabs)
                /\ links' = IF last THEN lnk
                            ELSE remove_nodes(g_nodes, lnk, nodes_to_remove)
                /\ g_nodes' = IF last THEN g_nodes ELSE g_nodes \ nodes_to_remove
                /\ pc' = IF last THEN "connect" ELSE "eliminate"
                /\ exc' = exc
    /\ UNCHANGED <<jt_normalization, jt_marginals, changes, compiled, network, n_next,
                   hash_order, node_order, n_var, n_order, n_out, n_new, mapVars, tabVars>>

\* The first bucket that holds the separator's variables, later or not.
upward_bucket_any_holder(bs, sep) ==
    LET holders == {k \in DOMAIN bs : sep.variables \subseteq bs[k].variables}
    IN  IF holders = {} THEN 0 ELSE CHOOSE k \in holders : \A o \in holders : k <= o

\* The first later bucket, whether or not it holds the separator's variables.
upward_bucket_any_later(bs, sep) ==
    LET above == {k \in DOMAIN bs : bs[k].index > sep.index}
    IN  IF above = {} THEN 0 ELSE CHOOSE k \in above : \A o \in above : k <= o

\* The first bucket above a separator, 0 for None.
upward_bucket(bs, sep) ==
    LET above == {k \in DOMAIN bs : /\ bs[k].index > sep.index
                                    /\ sep.variables \subseteq bs[k].variables}
    IN  IF above = {} THEN 0 ELSE CHOOSE k \in above : \A o \in above : k <= o

RECURSIVE ConnectFrom(_, _, _)
\* The loop that connects the separators to their upward bucket, from
\* separator k on: the buckets and separators afterwards.
ConnectFrom(bs, seps, k) ==
    IF k > Len(seps) THEN [buckets |-> bs, separators |-> seps]
    ELSE LET up == upward_bucket(bs, seps[k])
         IN  IF up = 0 THEN ConnectFrom(bs, seps, k + 1)
             ELSE ConnectFrom(
                    [bs EXCEPT ![up].separators = Append(@, k)],
                    [seps EXCEPT ![k].upward = up], k + 1)

\* The end of _build_from_graph.
Connect ==
    /\ pc = "connect"
    /\ LET c == ConnectFrom(buckets, separators, 1)
       IN  /\ buckets' = c.buckets
           /\ separators' = c.separators
    /\ pc' = "built"
    /\ UNCHANGED <<g_nodes, links, nb_nodes_removed, used_tables, subgraph_variables,
                   jt_normalization, jt_marginals, changes, compiled, network, n_next,
                   hash_order, node_order, exc, n_var, n_order, n_out, n_new,
                   mapVars, tabVars>>

\* The tables of a list of positions.
TablesAt(tables, positions) == [k \in DOMAIN positions |-> tables[positions[k]]]

\* The upbound messages of a list of separators.
Upbounds(seps, positions) == [k \in DOMAIN positions |-> seps[positions[k]].upbound]

\* The loop that marginalizes the variables of new_table that are not in
\* the separator; new_table may be None or an exception already raised.
marginalize_others(new_table, variables) ==
    IF new_table.kind = "none" THEN Raise("AttributeError")
    ELSE IF new_table.kind = "error" THEN new_table
    ELSE MarginalizeAll(new_table,
             Filter(new_table.domain, Range(new_table.domain) \ variables))

\* reduce(operator.mul, tables) followed by that loop.
message(tables, sep, h) == marginalize_others(ReduceMul(tables, h), sep.variables)

RECURSIVE collect_evidence(_, _, _, _, _)
\* The end of a turn of the loop of _collect_evidence: the message is stored
\* in the separator above bucket k, or the exception ends the call.
collect_store(bs, seps, tables, k, h, new_table) ==
    IF new_table.kind = "error"
    THEN [separators |-> seps, exc |-> new_table.exc]
    ELSE collect_evidence(bs, [seps EXCEPT ![bs[k].out].upbound = new_table],
                          tables, k + 1, h)

\* JunctionTree._collect_evidence from bucket k on: the separators
\* afterwards and the exception raised, if any.
collect_evidence(bs, seps, tables, k, h) ==
    IF k > Len(bs) THEN [separators |-> seps, exc |-> ""]
    ELSE IF bs[k].out = 0 THEN collect_evidence(bs, seps, tables, k + 1, h)
    ELSE collect_store(bs, seps, tables, k, h,
             message(TablesAt(tables, bs[k].tables)
                         \o Upbounds(seps, bs[k].separators),
                     seps[bs[k].out], h))

\* A list without its p-th element.
Without(s, p) == [k \in 1..(Len(s) - 1) |-> IF k < p THEN s[k] ELSE s[k + 1]]

RECURSIVE distribute_to(_, _, _, _, _)
\* The end of a turn of the loop of _distribute_evidence over the separators
\* below bucket b: the message is stored in the p-th, or the exception ends
\* the call.
distribute_store(b, seps, bucket_tabs, p, h, new_table) ==
    IF new_table.kind = "error"
    THEN [separators |-> seps, exc |-> new_table.exc]
    ELSE distribute_to(b, [seps EXCEPT ![b.separators[p]].downbound = new_table],
                       bucket_tabs, p + 1, h)

\* The loop of _distribute_evidence over the separators below bucket b, from
\* the p-th on.
distribute_to(b, seps, bucket_tabs, p, h) ==
    IF p > Len(b.separators) THEN [separators |-> seps, exc |-> ""]
    ELSE distribute_store(b, seps, bucket_tabs, p, h,
             message(bucket_tabs \o Upbounds(seps, Without(b.separators, p)),
                     seps[b.separators[p]], h))

RECURSIVE distribute_evidence(_, _, _, _, _)
\* The end of a turn of the loop of _distribute_evidence over the buckets.
distribute_next(bs, d, tables, k, h) ==
    IF d.exc # "" THEN d
    ELSE distribute_evidence(bs, d.separators, tables, k - 1, h)

\* JunctionTree._distribute_evidence from bucket k down.
distribute_evidence(bs, seps, tables, k, h) ==
    IF k = 0 THEN [separators |-> seps, exc |-> ""]
    ELSE distribute_next(bs,
             distribute_to(bs[k], seps,
                 TablesAt(tables, bs[k].tables) \o
                     (IF bs[k].out # 0 THEN <<seps[bs[k].out].downbound>> ELSE <<>>),
                 1, h),
             tables, k, h)

\* _distribute_evidence after _collect_evidence, unless it raised.
distribute_after(bs, c, tables, h) ==
    IF c.exc # "" THEN c
    ELSE distribute_evidence(bs, c.separators, tables, Len(bs), h)

\* fill() without _collect_evidence.
fill_distribute_only(bs, seps, tables, h) ==
    distribute_evidence(bs, seps, tables, Len(bs), h)

\* JunctionTree.fill(): collect, then distribute.
fill(bs, seps, tables, h) ==
    distribute_after(bs, collect_evidence(bs, seps, tables, 1, h), tables, h)

\* JunctionTree.fill(), at the end of JunctionTree.__init__ and after a
\* change of the tables.
Fill ==
    /\ pc = "built"
    /\ \E f \in {fill(buckets, separators, network, hash_order)} :
           /\ separators' = f.separators
           /\ exc' = f.exc
           /\ pc' = IF f.exc = "" THEN "filled" ELSE "raised"
    /\ UNCHANGED <<g_nodes, links, buckets, nb_nodes_removed, used_tables,
                   subgraph_variables, jt_normalization, jt_marginals, changes,
                   compiled, network, n_next, hash_order, node_order, n_var, n_order, n_out, n_new,
                   mapVars, tabVars>>

\* The product of the tables of a bucket and of its messages.
bucket_product(tabs, h) ==
    IF Len(tabs) = 1
    THEN IF tabs[1].kind = "none" THEN Raise("AttributeError")
         ELSE TableInit(tabs[1].domain, tabs[1].values, tabs[1].normalization)
    ELSE ReduceMul(tabs, h)

\* marginals.append(new_table): new_table.domain is read afterwards.
appended(marginal) ==
    IF marginal.kind = "none" THEN Raise("AttributeError") ELSE marginal

\* The body of the loop of JunctionTree.marginals() for one variable, the
\* bucket found for it being the k-th.
bucket_marginal(bucket, seps, tables, variable, h) ==
    appended(MarginalizeAll(
        bucket_product(TablesAt(tables, bucket.tables)
            \o (IF bucket.out # 0 THEN <<seps[bucket.out].downbound>> ELSE <<>>)
            \o Upbounds(seps, bucket.separators), h),
        Filter(h, bucket.variables \ {variable})))

\* The bucket JunctionTree.marginals() finds for a variable: the first one
\* with the variable, the last bucket when no bucket has it.
find_bucket(bs, variable) ==
    IF \E k \in DOMAIN bs : variable \in bs[k].variables
    THEN CHOOSE k \in DOMAIN bs :
             /\ variable \in bs[k].variables
             /\ \A o \in 1..(k - 1) : variable \notin bs[o].variables
    ELSE Len(bs)

\* The body of the loop of JunctionTree.marginals() for one variable.
marginal_table(bs, seps, tables, variable, h) ==
    bucket_marginal(bs[find_bucket(bs, variable)], seps, tables, variable, h)

RECURSIVE subgraph_normalization(_, _, _)
\* The product of the normalization of the marginals of the variables
\* listed in subgraph_variables, from marginal k on.
subgraph_normalization(ms, roots, k) ==
    IF k > Len(ms) THEN One
    ELSE IF ms[k].domain[1] \in Range(roots)
         THEN RMul(ms[k].normalization, subgraph_normalization(ms, roots, k + 1))
         ELSE subgraph_normalization(ms, roots, k + 1)

\* JunctionTree.marginals() that leaves every marginal the normalization of
\* its own bucket.
returned_marginals_own(ms, z) == ms

\* The marginals JunctionTree.marginals() returns, given the tables of its
\* first loop and the normalization of its second.
returned_marginals(ms, z) == [k \in DOMAIN ms |-> [ms[k] EXCEPT !.normalization = z]]

\* The tables of the first loop of JunctionTree.marginals().
marginal_tables(bs, seps, tables, variables, h) ==
    [k \in DOMAIN variables |-> marginal_table(bs, seps, tables, variables[k], h)]

\* The exception the first loop of JunctionTree.marginals() ends with, "" if
\* none.
first_exception(ms) ==
    IF \A k \in DOMAIN ms : ms[k].kind # "error" THEN ""
    ELSE ms[CHOOSE k \in DOMAIN ms :
                /\ ms[k].kind = "error"
                /\ \A o \in 1..(k - 1) : ms[o].kind # "error"].exc

\* new_table = tables[0] in place of the call of Table.
table_copy_same(position) == position

\* The table of the network that bayesian.Table(tables[0].domain,
\* tables[0]._values, tables[0]._normalization) is, by its position: none (0),
\* Table.__init__ makes a new domain and a new array.
table_copy(position) == 0

\* The table of the network that new_table is at the end of a turn of the
\* first loop of JunctionTree.marginals(), 0 when it is an object the turn
\* made: a product and the result of marginalize are new tables.
marginal_object(bucket, variable) ==
    IF Len(bucket.tables) = 1 /\ bucket.out = 0 /\ bucket.separators = <<>>
    THEN IF bucket.variables \ {variable} = {}
         THEN table_copy(bucket.tables[1])
         ELSE 0
    ELSE 0

\* The tables of the network after the last loop of JunctionTree.marginals(),
\* marginal._normalization = self.normalization.
normalization_written(bs, tables, variables, z) ==
    [k \in DOMAIN tables |->
        IF \E i \in DOMAIN variables :
               marginal_object(bs[find_bucket(bs, variables[i])], variables[i]) = k
        THEN [tables[k] EXCEPT !.normalization = z]
        ELSE tables[k]]

\* JunctionTree.marginals()
Marginals ==
    /\ pc \in {"filled", "late"}
    /\ \E ms \in {marginal_tables(buckets, separators, network,
                                  NetworkDomain(network, hash_order), hash_order)} :
           IF first_exception(ms) # ""
           THEN /\ exc' = first_exception(ms)
                /\ pc' = "raised"
                /\ UNCHANGED <<jt_normalization, jt_marginals, network>>
           ELSE \E z \in {subgraph_normalization(ms, subgraph_variables, 1)} :
                    /\ jt_normalization' = z
                    /\ jt_marginals' = returned_marginals(ms, z)
                    /\ network' = normalization_written(buckets, network,
                                       NetworkDomain(network, hash_order), z)
                    /\ pc' = IF pc = "late" THEN "stale" ELSE "done"
                    /\ exc' = ""
    /\ UNCHANGED <<g_nodes, links, buckets, separators, nb_nodes_removed, used_tables,
                   subgraph_variables, changes, compiled, n_next, hash_order,
                   node_order, n_var, n_order, n_out, n_new, mapVars, tabVars>>

\* The caller changes the values of the first table of the network in place
\* with Table.unnormalize(); the tree is to be filled again.
ChangeTable ==
    /\ pc = "done"
    /\ changes < MaxChanges
    /\ network' = [network EXCEPT ![1] = TableUnnormalize(network[1])]
    /\ changes' = changes + 1
    /\ pc' = "built"
    /\ UNCHANGED <<g_nodes, links, buckets, separators, nb_nodes_removed, used_tables,
                   subgraph_variables, jt_normalization, jt_marginals, compiled, n_next,
                   hash_order, node_order, exc, n_var, n_order, n_out, n_new,
                   mapVars, tabVars>>

\* network.add_table(table) once the tree is built and filled; the caller
\* asks the tree for its marginals again afterwards.
AddTableLate ==
    /\ pc = "done"
    /\ Len(network) - compiled < MaxLate
    /\ \E k \in n_next..NbCandidates :
            /\ network' = Append(network, Candidate(k))
            /\ n_next' = k + 1
    /\ pc' = "late"
    /\ UNCHANGED <<g_nodes, links, buckets, separators, nb_nodes_removed, used_tables,
                   subgraph_variables, jt_normalization, jt_marginals, changes,
                   compiled, hash_order, node_order, exc, n_var, n_order, n_out,
                   n_new, mapVars, tabVars>>

\* The nodes of the graphs handed to _build_from_graph without a network.
GraphNodes == {"a", "b", "c", "d", "e", "f"}

\* The links those graphs are made of, the first MaxLinks of them.
GraphLinks ==
    << <<"a", "b">>, <<"a", "c">>, <<"a", "d">>, <<"a", "e">>, <<"b", "c">>,
       <<"b", "f">>, <<"c", "d">>, <<"d", "e">>, <<"d", "f">>, <<"e", "f">>,
       <<"c", "f">>, <<"b", "e">> >>

\* The orders in which a run may list the nodes of those graphs.
GraphOrders == {<<"a", "b", "c", "d", "e", "f">>, <<"f", "e", "d", "c", "b", "a">>}

\* The domain graph with the links of GraphLinks at the positions of S.
GraphWith(S) ==
    [v \in GraphNodes |->
        {w \in GraphNodes :
            \E i \in S : GraphLinks[i] = <<v, w>> \/ GraphLinks[i] = <<w, v>>}]

\* _build_from_graph(graph) at the copy of the graph, for a graph given by
\* its nodes and links; the tables play no part in the choice of the nodes.
GraphInit ==
    /\ MapIdle /\ TabIdle
    /\ network = <<>> /\ n_next = 1 /\ exc = ""
    /\ hash_order = <<"a", "b", "c", "d">> /\ node_order \in GraphOrders
    /\ n_var = "" /\ n_order = <<>> /\ n_out = NoTable /\ n_new = <<>>
    /\ g_nodes = GraphNodes
    /\ links \in {GraphWith(S) : S \in SUBSET (1..MaxLinks)}
    /\ buckets = <<>> /\ separators = <<>>
    /\ nb_nodes_removed = 0 /\ used_tables = {}
    /\ subgraph_variables = <<>> /\ jt_normalization = One
    /\ jt_marginals = <<>> /\ changes = 0 /\ compiled = 0
    /\ pc = "isolated"

GraphNext == IsolatedStep \/ EliminateStep \/ Connect
SpecGraph == GraphInit /\ [][GraphNext]_vars

JTNext == AddTable \/ JTInit \/ IsolatedStep \/ EliminateStep \/ Connect \/ Fill
          \/ Marginals \/ ChangeTable \/ AddTableLate
SpecJT == NetInit /\ [][JTNext]_vars

-----------------------------------------------------------------------------
(* What a network stands for: the product of the factors of its tables,    *)
(* against which the claims on networks and junction trees are stated.     *)

RECURSIVE JointFrom(_, _, _)
JointFrom(tables, f, k) ==
    IF k > Len(tables) THEN One
    ELSE RMul(Factor(tables[k], f), JointFrom(tables, f, k + 1))

\* The product of all tables at the joint assignment f.
Joint(tables, f) == JointFrom(tables, f, 1)

RECURSIVE RSumSet(_, _)
\* The sum of g over a finite set.
RSumSet(S, g) ==
    IF S = {} THEN Zero
    ELSE LET x == CHOOSE y \in S : TRUE
         IN  RAdd(g[x], RSumSet(S \ {x}, g))

\* The sum of the product of all tables over the assignments with v = s.
SumProduct(tables, v, s) ==
    LET A == {f \in Assignments(NetworkVariables(tables)) : f[v] = s}
    IN  RSumSet(A, [f \in A |-> Joint(tables, f)])

\* The sum of the product of all tables over all assignments.
SumProductAll(tables) ==
    LET A == Assignments(NetworkVariables(tables))
    IN  RSumSet(A, [f \in A |-> Joint(tables, f)])


-----------------------------------------------------------------------------
(* Claims on map() and on the table algebra.                               *)

\* The sum of t's values over the states of variable v, at the assignment g
\* of t's other variables.
SumOver(t, v, g) ==
    RSumTo([s \in 0..(nb_states(v) - 1) |->
                t.values[FlatIndex(t.domain, [w \in Range(t.domain) |->
                                                 IF w = v THEN s ELSE g[w]])]],
           nb_states(v))

\* The domain of t without v, the other variables in their order.
DomainWithout(dom, v) == Filter(dom, Range(dom) \ {v})

AllFinite(x) == \A i \in DOMAIN x : IsFinite(x[i])

\* C6: map(sub, full) has one entry per flat index i of full, and the entry
\* is the flat index in sub of the assignment i denotes, restricted to sub.
C6_MapIsRestriction ==
    m_full # <<>> =>
        m_out = [i \in 0..(DomainSize(m_full) - 1) |->
                    RestrictedIndex(m_sub, m_full, i)]

\* C7: the product c of a and b is over the variables of a.domain * b.domain,
\* its values sum to 1, c.values x c.normalization is the product of the
\* factors of a and b at every assignment, and the Product node holds the
\* same table up to the order of the axes.
C7_ProductIsFactorProduct ==
    t_op = "mul" =>
        /\ IsTable(t_c) /\ IsTable(t_p)
        /\ Range(t_c.domain) = Range(DomainMul(t_a.domain, t_b.domain))
        /\ NpSum(t_c.values) = One
        /\ \A f \in Assignments(Range(t_c.domain)) :
              /\ Factor(t_c, f) = RMul(Factor(t_a, f), Factor(t_b, f))
              /\ t_p.values[FlatIndex(t_p.domain, f)]
                    = t_c.values[FlatIndex(t_c.domain, f)]
        /\ Range(t_p.domain) = Range(t_c.domain)
        /\ t_p.normalization = t_c.normalization

C9_InitNormalizes ==
    (t_op \in {"init", "init_b"} /\ NpSum(AsFloats(t_raw[2])) # Zero) =>
        LET n == <<t_raw[3], 1>>
            z == NpSum(AsFloats(t_raw[2]))
        IN  /\ IsTable(t_c)
            /\ t_c.domain = t_raw[1]
            /\ NpSum(t_c.values) = One
            /\ t_c.normalization = RMul(n, z)
            /\ \A i \in DOMAIN t_raw[2] :
                  RMul(t_c.values[i], t_c.normalization) = RMul(<<t_raw[2][i], 1>>, n)

\* A table was built from unequal raw values with a normalization above 1.
C9_Witness ==
    /\ t_op = "init" /\ t_raw[3] > 1
    /\ Len(t_raw[1]) > 1
    /\ \E i, j \in DOMAIN t_raw[2] : t_raw[2][i] # 0 /\ t_raw[2][j] # t_raw[2][i]

\* C10: no table that exists holds all-zero or NaN values: a construction or
\* a product whose values sum to zero raises instead.
C10_NoDegenerateTable ==
    \A t \in {t_a, t_b, t_c, t_p} :
        IsTable(t) => /\ AllFinite(t.values)
                      /\ \E i \in DOMAIN t.values : t.values[i] # Zero

-----------------------------------------------------------------------------
(* Claims on Network and JunctionTree.                                     *)

\* Network.marginal(v) as the caller of the tree would call it.
NaiveMarginal(v) == NetworkMarginal(network, v, hash_order, hash_order)

\* C1: for every variable, the marginal the junction tree returns has the
\* values Network.marginal returns, and these are proportional to the sums,
\* over the other variables, of the product of all input tables.
C1_TreeAgreesWithNetwork ==
    pc = "done" =>
        \A k \in DOMAIN jt_marginals :
            LET m == jt_marginals[k]
                v == m.domain[1]
            IN  /\ IsTable(NaiveMarginal(v))
                /\ NaiveMarginal(v).domain = m.domain
                /\ NaiveMarginal(v).values = m.values
                /\ \A s \in 0..(nb_states(v) - 1) :
                       RMul(m.values[s], SumProductAll(network))
                           = SumProduct(network, v, s)

\* C2: after marginals() the normalization of the tree is the sum, over all
\* joint assignments, of the product of the unnormalized input tables.
C2_NormalizationIsTotal ==
    pc = "done" => jt_normalization = SumProductAll(network)

\* C3: every marginal returned by marginals() carries the normalization of
\* the tree, the first time and after a table was changed and the tree
\* filled again.
C3_SharedNormalization ==
    pc = "done" =>
        \A k \in DOMAIN jt_marginals :
            jt_marginals[k].normalization = jt_normalization

\* C3 witness: marginals() has returned again after a change, for a tree
\* with a bucket whose own normalization is not the tree's.
C3_Witness ==
    /\ pc = "done" /\ changes > 0
    /\ Len(jt_marginals) > 1
    /\ \E k \in DOMAIN jt_marginals :
          marginal_table(buckets, separators, network, jt_marginals[k].domain[1],
                         hash_order).normalization # jt_normalization

\* A network of single-variable tables over pairwise distinct variables.
Independent(tables) ==
    /\ tables # <<>>
    /\ \A i \in DOMAIN tables : Len(tables[i].domain) = 1
    /\ \A i \in DOMAIN tables : \A j \in DOMAIN tables :
          i # j => tables[i].domain # tables[j].domain

RECURSIVE NormalizationFrom(_, _)
\* The product of the normalization of the tables from the k-th on.
NormalizationFrom(tables, k) ==
    IF k > Len(tables) THEN One
    ELSE RMul(tables[k].normalization, NormalizationFrom(tables, k + 1))

\* C4: for a network of independent variables the tree compiles, has one
\* singleton bucket per variable, returns the input tables as marginals and
\* has the product of the sums of the inputs as normalization.
C4_IndependentNetwork ==
    Independent(network) =>
        /\ pc # "raised"
        /\ pc \in {"built", "filled", "done"} =>
              /\ Len(buckets) = Len(network)
              /\ \A k \in DOMAIN buckets : Cardinality(buckets[k].variables) = 1
        /\ pc = "done" =>
              /\ jt_normalization = NormalizationFrom(network, 1)
              /\ \A k \in DOMAIN jt_marginals : \E i \in DOMAIN network :
                    /\ network[i].domain = jt_marginals[k].domain
                    /\ network[i].values = jt_marginals[k].values

\* C5: Network.marginal(v) returns a table over (v) whose unnormalized
\* values are the sums, over the other variables, of the product of all the
\* tables of the network.
C5_MarginalIsSumProduct ==
    pc = "marginal" =>
        /\ IsTable(n_out)
        /\ n_out.domain = <<n_var>>
        /\ \A s \in 0..(nb_states(n_var) - 1) :
               RMul(n_out.values[s], n_out.normalization)
                   = SumProduct(network, n_var, s)

-----------------------------------------------------------------------------
(* Claims on Table.normalize / unnormalize and on the commutativity of the *)
(* product.                                                                *)

\* C11: normalize() and unnormalize() leave values x normalization of every
\* entry as it was before the call; after normalize() the values sum to 1,
\* after unnormalize() the normalization is 1.
C11_NormalizePreservesFactor ==
    t_op \in {"normalize", "unnormalize"} =>
        /\ \A i \in DOMAIN t_a.values :
              RMul(t_a.values[i], t_a.normalization)
                  = RMul(t_raw[1].values[i], t_raw[1].normalization)
        /\ t_op = "normalize" => NpSum(t_a.values) = One
        /\ t_op = "unnormalize" => t_a.normalization = One

\* The two tables stand for the same function of the joint assignment and
\* carry the same normalization.
SameTable(p, q) ==
    /\ Range(p.domain) = Range(q.domain)
    /\ p.normalization = q.normalization
    /\ \A f \in Assignments(Range(p.domain)) :
          p.values[FlatIndex(p.domain, f)] = q.values[FlatIndex(q.domain, f)]

\* C12: the product of a and b through a Product node is the product of b
\* and a: same variables, same normalization, same value at every joint
\* assignment.
C12_ProductCommutes ==
    t_op = "mul" => SameTable(t_p, ProductUpdate(t_b, t_a))

-----------------------------------------------------------------------------
(* Claims on Domain.                                                       *)

\* The variables of a domain, as a set.
VarSet(dom) == Range(dom.variables)

\* No variable occurs twice in the sequence.
NoDuplicate(s) == \A i, j \in 1..Len(s) : i # j => s[i] # s[j]

\* C13: a == b is true exactly when a and b hold the same set of variables,
\* whatever their order.
C13_EqualityIsSetEquality ==
    d_op = "==" => (d_cmp = "True" <=> VarSet(d_a) = VarSet(d_b))

\* C14: a <= b is true exactly when every variable of a is in b, a >= b
\* exactly when every variable of b is in a, whatever the orders.
C14_OrderIsInclusion ==
    /\ d_op = "<=" => (d_cmp = "True" <=> VarSet(d_a) \subseteq VarSet(d_b))
    /\ d_op = ">=" => (d_cmp = "True" <=> VarSet(d_b) \subseteq VarSet(d_a))

\* What Domain(iterable) has to give.
Constructed(obj, iterable) ==
    IF iterable = <<>> \/ ~NoDuplicate(iterable)
    THEN obj.kind = "error"
    ELSE /\ obj.kind = "domain"
         /\ obj.variables = iterable
         /\ obj.nb_states = [k \in 1..Len(iterable) |-> nb_states(iterable[k])]
         /\ obj.size = Cardinality(Assignments(Range(iterable)))

WellFormed(obj) ==
    obj.kind = "domain" => obj.variables # <<>> /\ NoDuplicate(obj.variables)

\* C15: Domain(iterable) raises on an empty or repeating iterable; otherwise
\* the domain holds the variables in the given order, the number of states
\* of each and a size that is the product of these. No domain, constructed
\* or returned by -, is empty or holds a variable twice.
C15_DomainConstruction ==
    /\ d_op = "new" => Constructed(d_a, d_raw)
    /\ d_op = "new b" => Constructed(d_b, d_raw)
    /\ WellFormed(d_a) /\ WellFormed(d_b) /\ WellFormed(d_c)

\* A three-variable domain was built, then a repeating iterable refused.
C15_Witness ==
    /\ d_op = "new b" /\ d_a.kind = "domain" /\ Len(d_a.variables) = 3
    /\ d_a.size = 12
    /\ Len(d_raw) = 2 /\ d_raw[1] = d_raw[2] /\ d_b.kind = "error"

\* obj is the domain of the variables of self other than variable, in the
\* order self has them.
IsRest(obj, self, variable) ==
    /\ obj.kind = "domain"
    /\ VarSet(obj) = VarSet(self) \ {variable}
    /\ NoDuplicate(obj.variables)
    /\ \A i, j \in 1..Len(obj.variables) :
          i < j => IndexOf(self.variables, obj.variables[i])
                       < IndexOf(self.variables, obj.variables[j])

\* C16, as stated: a - v is the domain of the other variables of a when v is
\* in a, an error when it is not; a is left as it was constructed.
C16_SubRemovesVariable ==
    d_op = "-" =>
        /\ d_var \in VarSet(d_a) => IsRest(d_c, d_a, d_var)
        /\ d_var \notin VarSet(d_a) => d_c.kind = "error"
        /\ d_a = MkDomain(d_raw)

\* C16, amended: subtracting the only variable of a raises ValueError.
C16_SubRemovesVariableOfSeveral ==
    d_op = "-" =>
        /\ d_var \in VarSet(d_a) /\ Len(d_a.variables) > 1
               => IsRest(d_c, d_a, d_var)
        /\ d_var \in VarSet(d_a) /\ Len(d_a.variables) = 1
               => d_c = DomainRaise("ValueError")
        /\ d_var \notin VarSet(d_a) => d_c = DomainRaise("ValueError")
        /\ d_a = MkDomain(d_raw)

\* The middle variable of a three-variable domain was subtracted.
C16_Witness ==
    /\ d_op = "-" /\ Len(d_a.variables) = 3 /\ d_var = d_a.variables[2]
    /\ d_c.kind = "domain"
    /\ d_c.variables = <<d_a.variables[1], d_a.variables[3]>>

-----------------------------------------------------------------------------
(* Claims on Network.marginalize.                                          *)

\* The tables of a list that have, or have not, variable v in their domain.
TablesWith(tables, v) == SelectSeq(tables, LAMBDA t : v \in Range(t.domain))
TablesWithout(tables, v) == SelectSeq(tables, LAMBDA t : v \notin Range(t.domain))

\* The product of the tables at the assignment f, summed over the states of v.
SumOut(tables, v, f) ==
    RSumSet(0..(nb_states(v) - 1),
            [s \in 0..(nb_states(v) - 1) |-> Joint(tables, (v :> s) @@ f)])

\* t is the product of the tables that have v, with v summed out.
IsSumOut(t, tables, v) ==
    /\ IsTable(t)
    /\ Range(t.domain) = NetworkVariables(TablesWith(tables, v)) \ {v}
    /\ \A f \in Assignments(Range(t.domain)) :
          Factor(t, f) = SumOut(TablesWith(tables, v), v, f)

\* new is the table list of the network without v.
IsMarginalized(new, tables, v) ==
    /\ new # <<>>
    /\ SubSeq(new, 1, Len(new) - 1) = TablesWithout(tables, v)
    /\ IsSumOut(new[Len(new)], tables, v)
    /\ v \notin NetworkVariables(new)

\* C17: network.marginalize(v) returns a network made of the tables without
\* v and of one table, the product of the tables with v summed over v; v is
\* not in its domain, and the table list of the network is left as it was.
C17_MarginalizeReplacesTables ==
    [][pc = "network" /\ pc' = "marginalized" =>
          /\ exc' = ""
          /\ IsMarginalized(n_new', network, n_var')
          /\ network' = network]_vars

-----------------------------------------------------------------------------
(* Claims on the domain graph and on the structure of the junction tree.   *)

\* The variables v and w are together in the domain of a table.
CoOccur(tables, v, w) ==
    \E i \in DOMAIN tables : {v, w} \subseteq Range(tables[i].domain)

\* The domain graph has just been built from the network.
GraphBuilt == pc = "isolated" /\ buckets = <<>>

\* C18: the domain graph has a node for every variable of the network and
\* for nothing else; two distinct nodes are linked exactly when their
\* variables are together in a table; links are symmetric; no node is linked
\* to itself.
C18_DomainGraphIsCoOccurrence ==
    GraphBuilt =>
        /\ g_nodes = {v \in Vars : \E i \in DOMAIN network :
                                      v \in Range(network[i].domain)}
        /\ \A v \in Vars : links[v] \subseteq g_nodes
        /\ \A v, w \in g_nodes :
              v # w => (w \in links[v] <=> CoOccur(network, v, w))
        /\ \A v, w \in Vars : w \in links[v] <=> v \in links[w]
        /\ \A v \in Vars : v \notin links[v]

\* A graph of three nodes or more with a linked pair and an unlinked pair.
C18_Witness ==
    /\ GraphBuilt
    /\ Cardinality(g_nodes) >= 3
    /\ \E v, w \in g_nodes : v # w /\ w \in links[v]
    /\ \E v, w \in g_nodes : v # w /\ w \notin links[v]

\* _build_from_graph has returned: the junction tree is compiled.
Compiled == pc \in {"built", "filled", "done"}

\* The buckets that hold table i of the network, counted with the number of
\* times each lists it.
Holders(i) ==
    {<<k, j>> \in (DOMAIN buckets) \X (1..MaxTables) :
        j \in DOMAIN buckets[k].tables /\ buckets[k].tables[j] = i}

\* C19: in a compiled junction tree every table of the network is in the
\* table list of exactly one bucket, once, and the variables of its domain
\* are all among the variables of that bucket.
C19_FamilyCover ==
    Compiled =>
        \A i \in DOMAIN network :
            /\ Cardinality(Holders(i)) = 1
            /\ \A h \in Holders(i) :
                  Range(network[i].domain) \subseteq buckets[h[1]].variables

\* A tree of two buckets or more, one of them holding two tables.
C19_Witness ==
    /\ Compiled
    /\ Len(buckets) >= 2
    /\ \E k \in DOMAIN buckets : Len(buckets[k].tables) >= 2
    /\ \E k \in DOMAIN buckets : Len(buckets[k].tables) = 1

\* The bucket above bucket k: the upward bucket of its separator, 0 when
\* there is none.
Parent(k) ==
    IF buckets[k].out = 0 THEN 0 ELSE separators[buckets[k].out].upward

\* The buckets whose variables include v.
Holding(v) == {k \in DOMAIN buckets : v \in buckets[k].variables}

\* C20: in a compiled junction tree the buckets that hold a variable form a
\* connected sub-tree: exactly one of them has no parent among them.
C20_RunningIntersection ==
    Compiled =>
        \A v \in NetworkVariables(network) :
            Cardinality({k \in Holding(v) : Parent(k) \notin Holding(v)}) = 1

\* A tree built with a fill-in: a variable held by three buckets or two
\* buckets whose variables no table holds together.
C20_Witness ==
    /\ Compiled
    /\ Len(buckets) >= 2
    /\ \E k \in DOMAIN buckets : \E v, w \in buckets[k].variables :
          v # w /\ ~CoOccur(network, v, w)
    /\ \E v \in Vars : Cardinality(Holding(v)) >= 2

-----------------------------------------------------------------------------
(* Claims on the update graph of tables.py.                                *)

RECURSIVE DependsOn(_)
\* The nodes node i depends on, directly or transitively.
DependsOn(i) ==
    UNION {{c} \cup DependsOn(c) : c \in Children(dag, i)}

\* The Product and Marginal nodes.
Computed == {k \in DOMAIN dag : dag[k].type # "Probability"}

\* C21: after new values are assigned to a leaf, no Product or Marginal node
\* that depends on the leaf is marked updated; after update() on a node, the
\* node and every Product and Marginal node it depends on are marked updated.
C21_InvalidateAndUpdate ==
    /\ dag_op[1] = "set" =>
          \A k \in Computed : dag_op[2] \in DependsOn(k) => ~dag[k].updated
    /\ dag_op[1] = "update" =>
          \A k \in Computed :
              k = dag_op[2] \/ k \in DependsOn(dag_op[2]) => dag[k].updated

\* A leaf was assigned while a node two levels above it, reached through a
\* shared node, was marked updated elsewhere in the graph.
C21_Witness ==
    /\ dag_op = <<"set", 2>> /\ Len(dag) >= 5
    /\ \A k \in Computed : 2 \in DependsOn(k)
    /\ dag_sets = 2

\* The table t, as far as its domain, values and normalization go.
Content(t) ==
    [domain |-> t.domain, values |-> Eager(t.values),
     normalization |-> t.normalization]

\* The sum of table t, over the domain of node `below`, along the variable.
Summed(t, below, variable) ==
    [domain |-> Filter(below.domain, Range(below.domain) \ {variable}),
     values |-> Eager(NpSumAxis(t.values, DomainNbStates(below.domain),
                                IndexOf(below.domain, variable))),
     normalization |-> t.normalization]

RECURSIVE Recomputed(_)
\* Node k computed afresh from the values the leaves hold now.
Recomputed(k) ==
    CASE dag[k].type = "Product" ->
            Content(ProductUpdate(Recomputed(dag[k].left),
                                  Recomputed(dag[k].right)))
      [] dag[k].type = "Marginal" ->
            Summed(Recomputed(dag[k].left), dag[dag[k].left], dag[k].variable)
      [] OTHER -> Content(dag[k])

\* Node k holds the values and the normalization of table t.
Holds(k, t) ==
    dag[k].values = t.values /\ dag[k].normalization = t.normalization

\* C30: a Product or Marginal node marked updated has every Product and
\* Marginal node it depends on marked updated too, and holds the values and
\* the normalization that computing it from the present leaves gives.
C30_CacheCoherence ==
    \A k \in Computed :
        dag[k].updated =>
            /\ \A c \in DependsOn(k) \cap Computed : dag[c].updated
            /\ Holds(k, Recomputed(k))

\* After two assignments, the product that shares a node with a marginal is
\* marked updated and holds values that are not those it was built with.
C30_Witness ==
    /\ Len(dag) >= 5 /\ dag_sets = 2 /\ dag_op[1] = "update"
    /\ dag[5].updated /\ dag[4].updated /\ dag[3].updated
    /\ dag[5].values # Probability("Product", 0, 0, "", dag[5].domain).values

-----------------------------------------------------------------------------
(* A compiled tree and the tables added to its network afterwards.          *)

\* C22: a compiled junction tree works on the network as it was when the
\* tree was built: when a table is added to the network afterwards,
\* marginals() still returns one marginal for each variable the network had
\* then, with the values and the normalization it returned before.
C22_CompiledTreeIsSnapshot ==
    [][pc = "late" => pc' = "stale" /\ jt_marginals' = jt_marginals]_vars

\* A step of the junction tree, from JunctionTree(network) to marginals(),
\* as opposed to a step of the caller.
TreeStep == pc \notin {"network", "done"} \/ pc' = "isolated"

\* C23: building the tree, fill() and marginals() change no table of the
\* network (domain, values and normalization stay as they were) and leave the
\* network's list of tables as it was: what they return is made of new
\* objects.
C23_InputsUntouched ==
    [][TreeStep => network' = network]_vars

\* marginals() has returned the marginal of a variable whose bucket holds one
\* table over that variable alone, with a normalization that is not the
\* table's.
C23_Witness ==
    /\ pc = "done"
    /\ \E k \in DOMAIN buckets :
           /\ Cardinality(buckets[k].variables) = 1
           /\ Len(buckets[k].tables) = 1
           /\ network[buckets[k].tables[1]].normalization # jt_normalization

-----------------------------------------------------------------------------
(* The shape of the compiled tree.                                          *)

RECURSIVE Reach(_, _)
\* The variables linked to one of S by a path of the graph lnk, S included.
Reach(lnk, S) ==
    LET T == S \cup UNION {lnk[v] : v \in S}
    IN  IF T = S THEN S ELSE Reach(lnk, T)

\* The connected components of the graph lnk over a set of variables.
ComponentsOf(lnk, variables) == {Reach(lnk, {v}) : v \in variables}

\* The connected components of the domain graph of the network the tree was
\* built from.
Components ==
    ComponentsOf(DomainGraphLinks(SubSeq(network, 1, compiled)),
                 NetworkVariables(SubSeq(network, 1, compiled)))

RECURSIVE Above(_, _)
\* The buckets met going up from bucket k, at most n of them.
Above(k, n) ==
    IF n = 0 \/ Parent(k) = 0 THEN {}
    ELSE {Parent(k)} \cup Above(Parent(k), n - 1)

\* The buckets that list the separator above bucket k among theirs.
ListedBy(k) ==
    {p \in DOMAIN buckets :
        \E i \in DOMAIN buckets[p].separators :
            buckets[p].separators[i] = buckets[k].out}

\* C24: in a compiled tree every clique with a separator is the child of
\* exactly one clique, whose variables contain the separator's; no clique is
\* its own ancestor; every connected component of the domain graph has
\* exactly one clique without a parent.
C24_TreeShape ==
    Compiled =>
        /\ \A k \in DOMAIN buckets :
               buckets[k].out # 0 =>
                   /\ separators[buckets[k].out].variables # {}
                   /\ Parent(k) \in DOMAIN buckets
                   /\ ListedBy(k) = {Parent(k)}
                   /\ separators[buckets[k].out].variables
                          \subseteq buckets[Parent(k)].variables
        /\ \A k \in DOMAIN buckets : k \notin Above(k, Len(buckets))
        /\ \A X \in Components :
               Cardinality({k \in DOMAIN buckets :
                               Parent(k) = 0 /\ buckets[k].variables \subseteq X}) = 1

\* A compiled tree of two components, one of them with a clique below
\* another.
C24_Witness ==
    /\ Compiled
    /\ Cardinality(Components) = 2
    /\ \E k \in DOMAIN buckets : Parent(k) # 0

-----------------------------------------------------------------------------
(* The order of the messages of fill().                                     *)

\* How many tables the collect message of bucket k is the product of.
CollectList(k) == Len(buckets[k].tables) + Len(buckets[k].separators)

\* How many tables a distribute message of bucket p is the product of.
DistributeList(p) ==
    Len(buckets[p].tables) + (IF buckets[p].out # 0 THEN 1 ELSE 0)
        + Len(buckets[p].separators) - 1

\* The tree after fill(). _collect_evidence takes the buckets in the order
\* of the list and _distribute_evidence in the reverse order: a bucket comes
\* after its children in the first and after its parent in the second.
FilledInOrder ==
    /\ \A k \in DOMAIN buckets :
           buckets[k].out # 0 =>
               /\ \A i \in DOMAIN buckets[k].separators :
                      separators[buckets[k].separators[i]].downward < k
               /\ CollectList(k) >= 1
               /\ separators[buckets[k].out].upbound.kind = "table"
    /\ \A p \in DOMAIN buckets :
           buckets[p].separators # <<>> =>
               /\ buckets[p].out # 0 => Parent(p) > p
               /\ DistributeList(p) >= 1
               /\ \A i \in DOMAIN buckets[p].separators :
                      /\ separators[buckets[p].separators[i]].downward < p
                      /\ separators[buckets[p].separators[i]].downbound.kind = "table"

\* C25: fill() computes the collect message of a clique after those of its
\* children, and the distribute message for a child after the parent's own
\* distribute message and after the collect messages of the siblings; it
\* reads no message that is not set and never multiplies an empty list of
\* tables: it ends without an exception, every message set.
C25_MessageOrder ==
    [][pc = "built" => pc' = "filled" /\ FilledInOrder']_vars

\* fill() has ended on a chain of three cliques: the middle one is a parent
\* that is not the root.
C25_Witness ==
    /\ pc = "filled"
    /\ \E k \in DOMAIN buckets :
           /\ Cardinality(Above(k, Len(buckets))) = 2
           /\ separators[buckets[k].out].downbound.kind = "table"

-----------------------------------------------------------------------------
(* One variable for each independent subgraph.                              *)

\* C26: once the tree is built, subgraph_variables lists exactly one
\* variable of each connected component of the domain graph, isolated
\* variables included, whatever the order the nodes come in.
C26_OneVariablePerComponent ==
    Compiled =>
        /\ Len(subgraph_variables) = Cardinality(Components)
        /\ \A X \in Components :
               Cardinality({i \in DOMAIN subgraph_variables :
                               subgraph_variables[i] \in X}) = 1

\* A tree built from a network with an isolated variable and a component of
\* three variables that takes two buckets.
C26_Witness ==
    /\ Compiled
    /\ \E X \in Components : Cardinality(X) = 1
    /\ \E X \in Components : Cardinality(X) = 3
    /\ Len(separators) >= 1

-----------------------------------------------------------------------------
(* The node made simplicial.                                                *)

\* A turn of the elimination loop that finds no simplicial node.
NoSimplicial ==
    /\ pc = "eliminate" /\ g_nodes # {}
    /\ simplicial_node(g_nodes, links, node_order) = ""

\* Node n misses no more links between its neighbours than any other node.
MinimalFillIn(n) ==
    \A o \in g_nodes : missing_links(links, n) <= missing_links(links, o)

\* C27: when the working graph has no simplicial node, the node made
\* simplicial, whose family is the bucket of the turn, is one that minimizes
\* the number of missing links between its neighbours.
C27_MinimumFillIn ==
    [][NoSimplicial =>
          \E n \in g_nodes :
              /\ MinimalFillIn(n)
              /\ buckets'[Len(buckets')].variables = family(links, n)]_vars

-----------------------------------------------------------------------------
(* The elimination loop.                                                    *)

\* The node a turn of the elimination loop takes.
Chosen ==
    IF simplicial_node(g_nodes, links, node_order) # ""
    THEN simplicial_node(g_nodes, links, node_order)
    ELSE get_minimal_family(g_nodes, links, node_order)

\* C28: every turn of the elimination loop removes at least one node from
\* the working graph, the chosen node among them, so that the loop takes no
\* more turns than the graph has nodes and ends, without an exception, with
\* the working graph exhausted.
C28_EliminationTerminates ==
    [][pc = "eliminate" =>
          /\ pc' \in {"eliminate", "connect"}
          /\ g_nodes' \subseteq g_nodes /\ g_nodes' # g_nodes
          /\ Chosen \notin g_nodes'
          /\ Len(buckets') <= Cardinality(NetworkVariables(network))
          /\ pc' = "connect" => g_nodes' = {}]_vars

-----------------------------------------------------------------------------
(* The graph handed to _build_from_graph.                                   *)

\* C29: _build_from_graph(graph) works on a copy: when it returns, every
\* node of graph has exactly the links it had before the call, none removed
\* by the elimination and no fill-in added.
C29_GraphUnchanged ==
    pc = "built" => links = DomainGraphLinks(SubSeq(network, 1, compiled))

=============================================================================
